---- MODULE Spec2Model ----
(***************************************************************************)
(* Model of src/app/upload/page.tsx (UploadPage): the search round trip    *)
(* (confirmAndSearch / resubmitWithSameCrop -> runSearchByUpload) as a     *)
(* state machine.  One step of the model is one task of the browser's      *)
(* event loop: a user event, a timer, a network event, together with the   *)
(* promise continuations (microtasks) that run before the next task.       *)
(***************************************************************************)
EXTENDS Integers, Sequences, FiniteSets, TLC

(* ------------------------------ bounds -------------------------------- *)

\* number of search round trips (calls of confirmAndSearch or
\* resubmitWithSameCrop that get past their first guard) in one behaviour
MaxCalls == 2

\* number of images the user selects in one behaviour
MaxFiles == 1

CallIds == 1..MaxCalls

\* length of the longest results array the result pipeline is applied to
MaxHits == 3

\* length of the longest results array that is sorted
MaxSorted == 3

\* length of the longest results array that is filtered
MaxFiltered == 2

\* length of the longest results array that is shown page by page
MaxLong == 25

(* --------------------------- program constants ------------------------ *)

\* form.set('topk', String(40))
TopK == 40

\* const [visibleCount, setVisibleCount] = useState(12)
PageSize == 12

\* setVisibleCount((n) => n + 12)
LoadStep == 12

\* const paths = ['/search/by-upload', '/search/image']
paths == <<"/search/by-upload", "/search/image">>

(* ------------------------------ environment --------------------------- *)

\* process.env.X of a variable that is not defined at build time
EnvUndefined == "<undefined>"

\* values NEXT_PUBLIC_API_BASE may have in a build
ApiBaseValues == {EnvUndefined, "", "http://api"}

\* values NEXT_PUBLIC_BACKEND_URL may have in a build
BackendUrlValues == {EnvUndefined, "", "http://backend"}

\* JavaScript truthiness of an environment value (string | undefined)
Truthy(v) == v # EnvUndefined /\ v # ""

\* a ?? b : b only when a is null or undefined
Nullish(a, b) == IF a = EnvUndefined THEN b ELSE a

\* ResolveBase with a default address instead of the missing configuration
ResolveBase_Default(a, b) ==
    IF Truthy(Nullish(a, b)) THEN Nullish(a, b) ELSE "http://localhost:8000"

\* process.env.NEXT_PUBLIC_API_BASE ?? process.env.NEXT_PUBLIC_BACKEND_URL
ResolveBase(a, b) == Nullish(a, b)

\* Response.ok
IsOk(status) == status >= 200 /\ status <= 299

\* the statuses a candidate endpoint answers with
Statuses == {200, 201, 204, 404, 500, 503}

\* Response.statusText
StatusText(status) ==
    CASE status = 200 -> "OK"
      [] status = 201 -> "Created"
      [] status = 204 -> "No Content"
      [] status = 404 -> "Not Found"
      [] status = 500 -> "Internal Server Error"
      [] OTHER        -> "Service Unavailable"

\* the body text an endpoint sends with a status: every endpoint and status
\* has a body of its own, so that a body is traced to the answer it came with
BodyText(p, status) ==
    CASE status = 200 /\ p = paths[1] -> "{\"results\":[7,8]}"
      [] status = 200 /\ p = paths[2] -> "{\"results\":[9]}"
      [] status = 201 -> "{}"
      [] status = 204 -> ""
      [] status = 404 /\ p = paths[1] -> "Cannot POST /search/by-upload"
      [] status = 404 /\ p = paths[2] -> "Cannot POST /search/image"
      [] status = 500 /\ p = paths[1] -> "by-upload crashed"
      [] status = 500 /\ p = paths[2] -> "image crashed"
      [] status = 503 /\ p = paths[1] -> "by-upload warming up"
      [] OTHER -> "image warming up"

\* the Response fetch resolves with when the endpoint at p answers `status`
Respond(p, status) ==
    [status |-> status, statusText |-> StatusText(status), body |-> BodyText(p, status)]

\* JSON.parse as Response.json() applies it to the body text: the value, or
\* a rejection for a text that is not JSON
ParseJson(text) ==
    CASE text = "{\"results\":[7,8]}" -> [ok |-> TRUE, hasResults |-> TRUE, results |-> <<7, 8>>]
      [] text = "{\"results\":[9]}"   -> [ok |-> TRUE, hasResults |-> TRUE, results |-> <<9>>]
      [] text = "{}"                  -> [ok |-> TRUE, hasResults |-> FALSE, results |-> <<>>]
      [] OTHER                        -> [ok |-> FALSE, hasResults |-> FALSE, results |-> <<>>]

(* ------------------------------- errors ------------------------------- *)

\* error state of the page: null
NoError == [kind |-> "none"]

\* new Error('Konfiguration fehlt: ...')
ConfigError ==
    [kind |-> "ConfigError",
     message |-> "Konfiguration fehlt: NEXT_PUBLIC_API_BASE oder NEXT_PUBLIC_BACKEND_URL nicht gesetzt."]

\* new Error('Netzwerkfehler ...')
NetworkError ==
    [kind |-> "NetworkError",
     message |-> "Netzwerkfehler - bitte ueberpruefe deine Verbindung und versuche es erneut."]

\* new Error('Bildsuche kurz nicht verfuegbar ...')
ServiceUnavailable ==
    [kind |-> "ServiceUnavailable",
     message |-> "Bildsuche kurz nicht verfuegbar - bitte spaeter erneut versuchen."]

\* HttpError whose message leaves the body out
HttpError_NoBody(status, statusText, text) ==
    [kind |-> "HttpError", status |-> status, statusText |-> statusText, body |-> ""]

\* new Error(`${r.status} ${r.statusText} - ${lastText}`)
HttpError(status, statusText, text) ==
    [kind |-> "HttpError", status |-> status, statusText |-> statusText, body |-> text]

\* new Error(`Kein Upload-Endpoint gefunden (404). Letzte Antwort: ${lastText}`)
NotFoundError(text) == [kind |-> "NotFoundError", body |-> text]

\* the rejection of r.json(): a body that is not JSON or could not be read
JsonError == [kind |-> "JsonError"]

\* new Error('Canvas context not available')
CanvasError == [kind |-> "CanvasError", message |-> "Canvas context not available"]

\* the TypeError of URL.createObjectURL(null), toBlob having delivered null
BlobError == [kind |-> "TypeError"]

(* ---------------------------- crop geometry ---------------------------- *)

\* Numbers of the crop geometry are integers, or quotients <<n, d>> of
\* integers with d > 0 where the code divides; Math.round is computed on the
\* exact quotient.

\* a || b on numbers: b when a is 0
Or(a, b) == IF a # 0 THEN a ELSE b

\* Math.max(a, b)
Max(a, b) == IF a >= b THEN a ELSE b

\* Round with Math.floor in the place of Math.round
Round_Floor(n, d) == n \div d

\* Math.round(n / d) for d > 0: the nearest integer, a tie going up
Round(n, d) == (2 * n + d) \div (2 * d)

\* toPixelCrop that leaves out the Math.max of line 39
toPixelCrop_NoClamp(c, image) ==
    LET naturalW == image.naturalWidth
        naturalH == image.naturalHeight
        renderedW == Or(image.width, naturalW)
        renderedH == Or(image.height, naturalH)
        isPct == c.unit = "%"
    IN  [unit |-> "px",
         x |-> Round(c.x * naturalW, IF isPct THEN 100 ELSE renderedW),
         y |-> Round(c.y * naturalH, IF isPct THEN 100 ELSE renderedH),
         width |-> Round(c.width * naturalW, IF isPct THEN 100 ELSE renderedW),
         height |-> Round(c.height * naturalH, IF isPct THEN 100 ELSE renderedH)]

\* toPixelCrop that scales every selection by natural / rendered, whatever
\* its unit
toPixelCrop_IgnoreUnit(c, image) ==
    LET naturalW == image.naturalWidth
        naturalH == image.naturalHeight
        renderedW == Or(image.width, naturalW)
        renderedH == Or(image.height, naturalH)
    IN  [unit |-> "px",
         x |-> Max(0, Round(c.x * naturalW, renderedW)),
         y |-> Max(0, Round(c.y * naturalH, renderedH)),
         width |-> Max(1, Round(c.width * naturalW, renderedW)),
         height |-> Max(1, Round(c.height * naturalH, renderedH))]

\* toPixelCrop(c, img), lines 26-40.  image.width and image.height are the
\* rendered size, 0 before layout, as is the bounding rectangle's then;
\* (rx / 100) * naturalW is rx * naturalW / 100 and rx * scaleX is
\* rx * naturalW / renderedW.
toPixelCrop(c, image) ==
    LET naturalW == image.naturalWidth
        naturalH == image.naturalHeight
        renderedW == Or(image.width, naturalW)
        renderedH == Or(image.height, naturalH)
        isPct == c.unit = "%"
        x == Round(c.x * naturalW, IF isPct THEN 100 ELSE renderedW)
        y == Round(c.y * naturalH, IF isPct THEN 100 ELSE renderedH)
        w == Round(c.width * naturalW, IF isPct THEN 100 ELSE renderedW)
        h == Round(c.height * naturalH, IF isPct THEN 100 ELSE renderedH)
    IN  [unit |-> "px", x |-> Max(0, x), y |-> Max(0, y),
         width |-> Max(1, w), height |-> Max(1, h)]

\* pixelToPercentCropWithSize(px, naturalW, naturalH), lines 42-50: each
\* coordinate is the quotient (p * 100) / natural
pixelToPercentCropWithSize(p, naturalW, naturalH) ==
    [unit |-> "%",
     x |-> <<p.x * 100, naturalW>>,
     y |-> <<p.y * 100, naturalH>>,
     width |-> <<p.width * 100, naturalW>>,
     height |-> <<p.height * 100, naturalH>>]

\* the coordinates a selection is made of in the model, in its unit
CoordValues == {-3, 0, 1, 12, 50, 76, 99, 100}

\* the selections toPixelCrop is applied to
Selections ==
    [unit : {"%", "px"}, x : CoordValues, y : CoordValues,
     width : CoordValues, height : CoordValues]

\* the natural sizes of the images, width and height
NaturalSizes == {<<1, 1>>, <<3, 10>>, <<10, 3>>, <<1000, 800>>}

\* the rendered sizes of the <img>: <<0, 0>> before layout
RenderedSizes == {<<0, 0>>, <<7, 5>>, <<500, 400>>}

\* the <img> elements toPixelCrop is applied to
Elements ==
    {[naturalWidth |-> n[1], naturalHeight |-> n[2], width |-> r[1], height |-> r[2]] :
        n \in NaturalSizes, r \in RenderedSizes}

\* no selection, no element, no rectangle
Nothing == [unit |-> "none"]

(* --------------------------- result pipeline -------------------------- *)

\* Strings of the hits are sequences of characters, so that a template
\* literal is the concatenation it is; a field of type string | null is a
\* record that says whether it is null.

\* null in a field of type string | null
NullString == [null |-> TRUE, text |-> <<>>]

\* the string `text` in a field of type string | null
Str(text) == [null |-> FALSE, text |-> text]

\* v ?? '' for v: string | null
OrEmpty(v) == IF v.null THEN <<>> ELSE v.text

\* the decimal digits
DigitChars == <<"0", "1", "2", "3", "4", "5", "6", "7", "8", "9">>

\* `${n}` for an integer n >= 0
RECURSIVE NumberToString(_)
NumberToString(n) ==
    IF n < 10 THEN <<DigitChars[n + 1]>>
    ELSE NumberToString(n \div 10) \o <<DigitChars[(n % 10) + 1]>>

\* const id = `${h.product_id}-${h.deeplink ?? ''}-${h.image_url ?? ''}`
HitKey(h) ==
    NumberToString(h.product_id) \o <<"-">> \o OrEmpty(h.deeplink)
        \o <<"-">> \o OrEmpty(h.image_url)

\* a filter that hands back the hits it keeps last first
RECURSIVE DedupeFrom_Prepend(_, _)
DedupeFrom_Prepend(list, seen) ==
    IF list = <<>> THEN <<>>
    ELSE LET h == Head(list)
             id == HitKey(h)
         IN  IF id \in seen THEN DedupeFrom_Prepend(Tail(list), seen)
             ELSE DedupeFrom_Prepend(Tail(list), seen \cup {id}) \o <<h>>

\* results.filter((h) => ...) of lines 312-317 from the hit at the head of
\* `list` on, `seen` holding the keys of the hits before it
RECURSIVE DedupeFrom(_, _)
DedupeFrom(list, seen) ==
    IF list = <<>> THEN <<>>
    ELSE LET h == Head(list)
             id == HitKey(h)
         IN  IF id \in seen THEN DedupeFrom(Tail(list), seen)
             ELSE <<h>> \o DedupeFrom(Tail(list), seen \cup {id})

\* dedupedResults, lines 310-318
Dedupe(list) == DedupeFrom(list, {})

\* A value of type number, or a missing one, is a record: a finite number
\* (an integer), Infinity, -Infinity, NaN, or null.

\* the number n
Number(n) == [kind |-> "number", value |-> n]

\* Infinity, -Infinity and NaN
Infinity == [kind |-> "Infinity", value |-> 0]
NegInfinity == [kind |-> "-Infinity", value |-> 0]
NaN == [kind |-> "NaN", value |-> 0]

\* null or undefined in a field of type number
NoNumber == [kind |-> "null", value |-> 0]

\* v ?? d for v: number | null
OrNumber(v, d) == IF v.kind = "null" THEN d ELSE v

\* a - b on numbers: Infinity - Infinity and -Infinity - -Infinity are NaN
Minus(a, b) ==
    CASE a.kind = "NaN" \/ b.kind = "NaN" -> NaN
      [] a.kind = "number" /\ b.kind = "number" -> Number(a.value - b.value)
      [] a.kind = b.kind -> NaN
      [] a.kind = "Infinity" \/ b.kind = "-Infinity" -> Infinity
      [] OTHER -> NegInfinity

\* a >= b on numbers: false when either is NaN
GreaterEq(a, b) ==
    CASE a.kind = "NaN" \/ b.kind = "NaN" -> FALSE
      [] a.kind = "number" /\ b.kind = "number" -> a.value >= b.value
      [] OTHER -> a.kind = "Infinity" \/ b.kind = "-Infinity"

\* a <= b on numbers
LessEq(a, b) == GreaterEq(b, a)

\* v > 0, as Array.prototype.sort reads what its comparator returns: NaN
\* counts as 0
IsPositive(v) == (v.kind = "number" /\ v.value > 0) \/ v.kind = "Infinity"

\* the sort keys of the select
SortKeys == {"relevance", "priceAsc", "priceDesc", "scoreDesc", "scoreAsc"}

\* Compare that counts a missing price as 0
Compare_MissingAsZero(key, a, b) ==
    CASE key = "priceAsc" -> Minus(OrNumber(a.price, Number(0)), OrNumber(b.price, Number(0)))
      [] key = "priceDesc" -> Minus(OrNumber(b.price, Number(0)), OrNumber(a.price, Number(0)))
      [] key = "scoreDesc" -> Minus(OrNumber(b.score, Number(0)), OrNumber(a.score, Number(0)))
      [] OTHER -> Minus(OrNumber(a.score, Number(0)), OrNumber(b.score, Number(0)))

\* the comparator given to arr.sort for a sort key, lines 323-326
Compare(key, a, b) ==
    CASE key = "priceAsc" -> Minus(OrNumber(a.price, Infinity), OrNumber(b.price, Infinity))
      [] key = "priceDesc" -> Minus(OrNumber(b.price, NegInfinity), OrNumber(a.price, NegInfinity))
      [] key = "scoreDesc" -> Minus(OrNumber(b.score, Number(0)), OrNumber(a.score, Number(0)))
      [] OTHER -> Minus(OrNumber(a.score, Number(0)), OrNumber(b.score, Number(0)))

\* Insert that moves the new element before the elements it is equal to
RECURSIVE Insert_Unstable(_, _, _)
Insert_Unstable(sorted, h, key) ==
    IF sorted = <<>> THEN <<h>>
    ELSE LET last == sorted[Len(sorted)]
         IN  IF ~IsPositive(Compare(key, h, last))
             THEN Insert_Unstable(SubSeq(sorted, 1, Len(sorted) - 1), h, key) \o <<last>>
             ELSE sorted \o <<h>>

\* One step of Array.prototype.sort, which is stable: h, which came after
\* the elements of `sorted` in the array, goes before the elements the
\* comparator puts after it, and after all others.
RECURSIVE Insert(_, _, _)
Insert(sorted, h, key) ==
    IF sorted = <<>> THEN <<h>>
    ELSE LET last == sorted[Len(sorted)]
         IN  IF IsPositive(Compare(key, last, h))
             THEN Insert(SubSeq(sorted, 1, Len(sorted) - 1), h, key) \o <<last>>
             ELSE sorted \o <<h>>

\* arr.sort(comparator) on the first n elements of arr
RECURSIVE SortFirst(_, _, _)
SortFirst(arr, n, key) ==
    IF n = 0 THEN <<>> ELSE Insert(SortFirst(arr, n - 1, key), arr[n], key)

\* sortedResults, lines 320-330: a copy of dedupedResults, sorted unless the
\* key is 'relevance'
Sort(deduped, key) ==
    IF key = "relevance" THEN deduped ELSE SortFirst(deduped, Len(deduped), key)

\* the label buckets; the second is 'Sehr \"ahnlich' in the source, written
\* here without its umlaut
Buckets == {"Exact", "Sehr aehnlich", "Alternative"}

\* normalizeBucket(lbl), lines 332-333
normalizeBucket(lbl) ==
    IF lbl = "Exact" THEN "Exact"
    ELSE IF lbl = "Sehr aehnlich" THEN "Sehr aehnlich"
    ELSE "Alternative"

\* the initial labelFilter, lines 143-145
AllLabels == [k \in Buckets |-> TRUE]

\* ch is a decimal digit
IsDigit(ch) == \E d \in 1..10 : DigitChars[d] = ch

\* the value of the digit ch
DigitValue(ch) == (CHOOSE d \in 1..10 : DigitChars[d] = ch) - 1

\* the value of the digits text begins with, after the digits read as acc
RECURSIVE ParseDigits(_, _)
ParseDigits(text, acc) ==
    IF text = <<>> \/ ~IsDigit(Head(text)) THEN acc
    ELSE ParseDigits(Tail(text), 10 * acc + DigitValue(Head(text)))

\* parseFloat(text) for a text with no fraction and no exponent: the value
\* of the longest prefix that is a number, NaN when there is none
ParseFloat(text) ==
    LET negative == text # <<>> /\ Head(text) = "-"
        digits == IF negative THEN Tail(text) ELSE text
    IN  IF digits = <<>> \/ ~IsDigit(Head(digits)) THEN NaN
        ELSE Number((IF negative THEN -1 ELSE 1) * ParseDigits(digits, 0))

\* text.trim() that removes nothing
Trim_None(text) == text

\* text.trim(): without the spaces at its ends
RECURSIVE Trim(_)
Trim(text) ==
    IF text = <<>> THEN text
    ELSE IF Head(text) = " " THEN Trim(Tail(text))
    ELSE IF text[Len(text)] = " " THEN Trim(SubSeq(text, 1, Len(text) - 1))
    ELSE text

\* ch.toLowerCase() on the letters of the merchants and queries
ToLowerChar(ch) ==
    CASE ch = "A" -> "a"
      [] ch = "B" -> "b"
      [] OTHER -> ch

\* text.toLowerCase()
ToLowerCase(text) == [i \in 1..Len(text) |-> ToLowerChar(text[i])]

\* text.includes(q)
Includes(text, q) ==
    \E i \in 0..(Len(text) - Len(q)) : SubSeq(text, i + 1, i + Len(q)) = q

\* const min / const max, lines 336-337: undefined for the empty text
PriceBound(text) == IF text # <<>> THEN ParseFloat(text) ELSE NoNumber

\* const merchantQ, line 338
MerchantQ(merchantSearch) == ToLowerCase(Trim(merchantSearch))

\* const bucket, line 341
OkBucket(r, flags) == flags[normalizeBucket(r.label)] = TRUE

\* const okMin, line 342
OkMin(r, min) ==
    IF min.kind = "null" THEN TRUE ELSE GreaterEq(OrNumber(r.price, Infinity), min)

\* okMax that counts a missing price as Infinity
OkMax_MissingAsInfinity(r, max) ==
    IF max.kind = "null" THEN TRUE ELSE LessEq(OrNumber(r.price, Infinity), max)

\* const okMax, line 343
OkMax(r, max) ==
    IF max.kind = "null" THEN TRUE ELSE LessEq(OrNumber(r.price, NegInfinity), max)

\* const okMerchant, line 344
OkMerchant(r, merchantQ) ==
    IF merchantQ = <<>> THEN TRUE
    ELSE Includes(ToLowerCase(OrEmpty(r.merchant)), merchantQ)

\* filteredResults, lines 335-347
Filter(sorted, flags, priceMin, priceMax, merchantSearch) ==
    LET min == PriceBound(priceMin)
        max == PriceBound(priceMax)
        merchantQ == MerchantQ(merchantSearch)
        Keeps(r) ==
            /\ OkBucket(r, flags)
            /\ OkMin(r, min)
            /\ OkMax(r, max)
            /\ OkMerchant(r, merchantQ)
    IN  SelectSeq(sorted, Keeps)

\* arr.slice(start, end) that takes the element at end as well
Slice_Inclusive(arr, start, end) ==
    SubSeq(arr, start + 1, IF end + 1 < Len(arr) THEN end + 1 ELSE Len(arr))

\* arr.slice(start, end) for 0 <= start <= end
Slice(arr, start, end) ==
    SubSeq(arr, start + 1, IF end < Len(arr) THEN end ELSE Len(arr))

\* the values of product_id, deeplink and image_url among the hits
ProductIds == {1, 2}
Deeplinks == {NullString, Str(<<>>), Str(<<"a">>), Str(<<"a", "-", "b">>)}
ImageUrls == {NullString, Str(<<>>), Str(<<"c">>), Str(<<"b", "-", "c">>)}

\* the values of score among the hits
Scores == {Number(1), Number(2)}

\* the hits of a response that differ in the fields of the dedupe key
Hits ==
    [product_id : ProductIds, deeplink : Deeplinks, image_url : ImageUrls,
     score : Scores, price : {Number(5)}, label : {"Exact"}, merchant : {NullString}]

\* the results arrays of at most MaxHits hits
HitLists == UNION {[1..n -> Hits] : n \in 0..MaxHits}

\* the values of price and score among the hits that are sorted
SortPrices == {NoNumber, Number(3), Number(9)}
SortScores == {NoNumber, Number(0), Number(1)}

\* the i-th hit of a response, with what the sort keys and the filters read
\* of it
HitAt(i, score, price, label, merchant) ==
    [product_id |-> i, deeplink |-> NullString, image_url |-> NullString,
     score |-> score, price |-> price, label |-> label, merchant |-> merchant]

\* the results arrays of at most MaxSorted hits that are sorted
SortLists ==
    UNION {{[i \in 1..n |-> HitAt(i, sc[i], p[i], "Exact", NullString)] :
                sc \in [1..n -> SortScores], p \in [1..n -> SortPrices]} :
           n \in 0..MaxSorted}

\* the values of label, price and merchant among the hits that are filtered
FilterLabels == {"Exact", "Sehr aehnlich", "Neu"}
FilterPrices == {NoNumber, Number(3), Number(10), Number(12)}
FilterMerchants == {NullString, Str(<<"a", "B">>), Str(<<"b">>)}

\* the results arrays of at most MaxFiltered hits that are filtered
FilterLists ==
    UNION {{[i \in 1..n |-> HitAt(i, Number(1), p[i], l[i], m[i])] :
                l \in [1..n -> FilterLabels], p \in [1..n -> FilterPrices],
                m \in [1..n -> FilterMerchants]} : n \in 0..MaxFiltered}

\* the texts of the inputs of type number for the price bounds, and of the
\* input for the merchant
PriceTexts == {<<>>, <<"1", "0">>}
MerchantTexts == {<<>>, <<" ">>, <<" ", "A", "b">>}

\* the results arrays of at most MaxLong hits that are shown page by page:
\* the i-th hit is 'Exact' for odd i and 'Neu' for even i
LongLists ==
    {[i \in 1..n |-> HitAt(i, Number(1), Number(5), IF i % 2 = 1 THEN "Exact" ELSE "Neu", NullString)] :
        n \in 0..MaxLong}

(* -------------------------------- state ------------------------------- *)

VARIABLES
    apiBase,        \* process.env.NEXT_PUBLIC_API_BASE
    backendUrl,     \* process.env.NEXT_PUBLIC_BACKEND_URL
    file,           \* useState file: 0 is null, else the number of the image
    originalUrl,    \* useState originalUrl: 0 is null, else an object URL
    crop,           \* useState crop: 0 is undefined, else the image it selects in
    modalOpen,      \* useState modalOpen
    img,            \* the modal's <img>: "none" (not mounted), "loading", "loaded"
    loading,        \* useState loading
    error,          \* useState error
    results,        \* useState results
    resultsFrom,    \* history: the call whose response results holds, 0 if none
    visibleCount,   \* useState visibleCount
    cropPreviewUrl, \* useState cropPreviewUrl: 0 is null, else an object URL
    lastCropBlob,   \* useState lastCropBlob: 0 is null, else the call that made it
    cropPx,         \* useState cropPx: 0 is null, else the call that resolved it
    liveUrls,       \* object URLs created and not revoked
    nextUrl,        \* the next object URL createObjectURL returns for the file
    started,        \* number of search round trips started so far
    pc,             \* per call: where it is suspended
    origin,         \* per call: "confirm" or "resubmit"
    closure,        \* per call: the state its handler closed over
    cropBlob,       \* per call: how the promise of getCroppedBlob settled
    payload,        \* per call: the blob or file in the form's 'file' field
    base,           \* per call: const base
    timer,          \* per call: the timer `to` and ctrl's signal
    idx,            \* per call: index in paths of the candidate being tried
    requested,      \* per call: the URLs fetch was called with, in order
    received,       \* per call: the responses fetch resolved with, in order
    bodyRead,       \* per call: how reading each response's body ended
    lastText,       \* per call: let lastText
    outcome,        \* per call: how runSearchByUpload / the handler ended
    selection,      \* the Crop toPixelCrop is given
    element,        \* the HTMLImageElement toPixelCrop is given
    px,             \* const px = toPixelCrop(crop, imgEl)
    pct,            \* the Crop pixelToPercentCropWithSize returns for px
    resultList,     \* the results array the result pipeline is computed from
    sortBy,         \* useState sortBy
    labelFilter,    \* useState labelFilter
    priceMin,       \* useState priceMin
    priceMax,       \* useState priceMax
    merchantSearch, \* useState merchantSearch
    dedupedResults, \* const dedupedResults
    sortedResults,  \* const sortedResults
    filteredResults \* const filteredResults

pageVars == <<file, originalUrl, crop, modalOpen, img, loading, error, results,
              resultsFrom, visibleCount, cropPreviewUrl, lastCropBlob, cropPx,
              liveUrls, nextUrl>>

callVars == <<started, pc, origin, closure, cropBlob, payload, base, timer, idx,
              requested, received, bodyRead, lastText, outcome>>

\* arguments and results of the helper functions, which the state machine
\* of the page leaves alone
cropVars == <<selection, element, px, pct>>
listVars == <<resultList, sortBy, labelFilter, priceMin, priceMax, merchantSearch,
              dedupedResults, sortedResults, filteredResults>>
helperVars == <<cropVars, listVars>>

vars == <<apiBase, backendUrl, helperVars, pageVars, callVars>>

\* the promise of getCroppedBlob before it settles, or never made
Unsettled == [settled |-> "pending"]

\* getCroppedBlob(img, crop), lines 52-83: without a 2D context it throws
\* (line 58); with one, the promise resolves with what canvas.toBlob hands
\* its callback (line 81), a blob (the call that made it) or null (0)
getCroppedBlob(ctxOk, encoded) ==
    IF ~ctxOk THEN [settled |-> "rejected", error |-> CanvasError]
              ELSE [settled |-> "fulfilled", value |-> encoded]

\* outcome of a call that has not ended
Pending == [kind |-> "pending"]

\* outcome of a call whose promise resolved with the parsed body `data`
Returned(data) == [kind |-> "ok", data |-> data]

\* the page after its first render
InitPage ==
    /\ file = 0
    /\ originalUrl = 0
    /\ crop = 0
    /\ modalOpen = FALSE
    /\ img = "none"
    /\ loading = FALSE
    /\ error = NoError
    /\ results = <<>>
    /\ resultsFrom = 0
    /\ visibleCount = PageSize
    /\ cropPreviewUrl = 0
    /\ lastCropBlob = 0
    /\ cropPx = 0
    /\ liveUrls = {}
    /\ nextUrl = 1
    /\ started = 0
    /\ pc = [c \in CallIds |-> "idle"]
    /\ origin = [c \in CallIds |-> "none"]
    /\ closure = [c \in CallIds |-> [file |-> 0, cropPreviewUrl |-> 0]]
    /\ cropBlob = [c \in CallIds |-> Unsettled]
    /\ payload = [c \in CallIds |-> [kind |-> "none", id |-> 0]]
    /\ base = [c \in CallIds |-> EnvUndefined]
    /\ timer = [c \in CallIds |-> "unset"]
    /\ idx = [c \in CallIds |-> 0]
    /\ requested = [c \in CallIds |-> <<>>]
    /\ received = [c \in CallIds |-> <<>>]
    /\ bodyRead = [c \in CallIds |-> <<>>]
    /\ lastText = [c \in CallIds |-> ""]
    /\ outcome = [c \in CallIds |-> Pending]

\* no helper function is being evaluated
\* the controls of the result list after the first render, lines 134-148,
\* and what the memos compute from them
InitLists ==
    /\ resultList = <<>>
    /\ sortBy = "relevance"
    /\ labelFilter = AllLabels
    /\ priceMin = <<>>
    /\ priceMax = <<>>
    /\ merchantSearch = <<>>
    /\ dedupedResults = <<>>
    /\ sortedResults = <<>>
    /\ filteredResults = <<>>

InitHelpers ==
    /\ selection = Nothing
    /\ element = Nothing
    /\ px = Nothing
    /\ pct = Nothing
    /\ InitLists

Init ==
    /\ apiBase \in ApiBaseValues
    /\ backendUrl \in BackendUrlValues
    /\ InitPage
    /\ InitHelpers

\* Object URLs are named by what they were created for: n > 0 is the n-th
\* URL created for the selected file, CropUrl(c) the URL of call c's crop.
CropUrl(c) == 0 - c

\* the render after a state change: the useMemo chain of lines 310-347
\* computes dedupedResults, sortedResults and filteredResults anew
useMemos(list, key, flags, min, max, merchant) ==
    LET deduped == Dedupe(list)
        sorted == Sort(deduped, key)
    IN  /\ dedupedResults' = deduped
        /\ sortedResults' = sorted
        /\ filteredResults' = Filter(sorted, flags, min, max, merchant)

(* ------------------------- upload and crop modal ---------------------- *)

\* handleFiles(files) with an image file, the first `limit` times; a call
\* without a file or with a file that is no image returns before it changes
\* any state.  naturalSize, which it also resets, is not part of this state
\* machine.
selectFile(limit) ==
    /\ file < limit
    /\ file' = file + 1
    /\ originalUrl' = nextUrl
    /\ nextUrl' = nextUrl + 1
    /\ liveUrls' = (liveUrls \ {originalUrl, cropPreviewUrl}) \cup {nextUrl}
    /\ results' = <<>>
    /\ resultsFrom' = 0
    /\ visibleCount' = PageSize
    /\ error' = NoError
    /\ crop' = 0
    /\ lastCropBlob' = 0
    /\ cropPreviewUrl' = 0
    /\ cropPx' = 0
    /\ modalOpen' = TRUE
    /\ img' = "loading"
    /\ resultList' = <<>>
    /\ sortBy' = "relevance"
    /\ labelFilter' = AllLabels
    /\ priceMin' = <<>>
    /\ priceMax' = <<>>
    /\ merchantSearch' = <<>>
    /\ useMemos(<<>>, "relevance", AllLabels, <<>>, <<>>, <<>>)
    /\ UNCHANGED <<apiBase, backendUrl, cropVars, loading, callVars>>

\* handleFiles(e.target.files), lines 166-189, from the file input of the
\* navbar (line 389)
handleFiles == selectFile(MaxFiles)

\* <img onLoad> of the modal (lines 748-758): the image behind a live
\* object URL has loaded; a crop is set unless there is one
imgOnLoad ==
    /\ img = "loading"
    /\ originalUrl \in liveUrls
    /\ img' = "loaded"
    /\ crop' = IF crop = 0 THEN file ELSE crop
    /\ UNCHANGED <<apiBase, backendUrl, helperVars, file, originalUrl, modalOpen, loading, error,
                   results, resultsFrom, visibleCount, cropPreviewUrl, lastCropBlob,
                   cropPx, liveUrls, nextUrl, callVars>>

\* <img onError> of the modal -> ensureImageUrl() (lines 196-206, 759-762):
\* the object URL the image is loaded from has been revoked; a new one is
\* created, and the effect's cleanup revokes the URLs of the render before
imgOnError ==
    /\ img = "loading"
    /\ originalUrl \notin liveUrls
    /\ file # 0
    /\ originalUrl' = nextUrl
    /\ nextUrl' = nextUrl + 1
    /\ liveUrls' = (liveUrls \cup {nextUrl}) \ {originalUrl, cropPreviewUrl}
    /\ UNCHANGED <<apiBase, backendUrl, helperVars, file, crop, modalOpen, img, loading, error,
                   results, resultsFrom, visibleCount, cropPreviewUrl, lastCropBlob,
                   cropPx, callVars>>

\* the 'Ausschnitt aendern' button of the result view (lines 463-473), behind
\* the modal's backdrop while the modal is open: the modal and its <img> mount
changeCrop ==
    /\ originalUrl # 0
    /\ ~modalOpen
    /\ crop' = 0
    /\ modalOpen' = TRUE
    /\ img' = "loading"
    /\ UNCHANGED <<apiBase, backendUrl, helperVars, file, originalUrl, loading, error, results,
                   resultsFrom, visibleCount, cropPreviewUrl, lastCropBlob, cropPx,
                   liveUrls, nextUrl, callVars>>

\* Escape, 'Abbrechen' or a click on the backdrop: the modal unmounts
closeModal ==
    /\ modalOpen
    /\ modalOpen' = FALSE
    /\ img' = "none"
    /\ UNCHANGED <<apiBase, backendUrl, helperVars, file, originalUrl, crop, loading, error, results,
                   resultsFrom, visibleCount, cropPreviewUrl, lastCropBlob, cropPx,
                   liveUrls, nextUrl, callVars>>

(* --------------------------- runSearchByUpload ------------------------ *)

\* Classify with r.status === 200 in the place of r.ok
Classify_Only200(status) ==
    IF status = 200 THEN "return"
    ELSE IF status = 503 THEN "unavailable"
    ELSE IF status # 404 THEN "http"
    ELSE "next"

\* Classify without line 233: a 503 is thrown as any other status is
Classify_No503(status) ==
    IF IsOk(status) THEN "return"
    ELSE IF status # 404 THEN "http"
    ELSE "next"

\* Classify without line 234: every status that is not ok and not 503 goes
\* on to the next candidate, as a 404 does
Classify_NoThrow(status) ==
    IF IsOk(status) THEN "return"
    ELSE IF status = 503 THEN "unavailable"
    ELSE "next"

\* what runSearchByUpload does with a response of this status: line 231
\* returns r.json(), line 233 throws for 503, line 234 throws for any other
\* status but 404, and a 404 goes on to the next candidate
Classify(status) ==
    IF IsOk(status) THEN "return"
    ELSE IF status = 503 THEN "unavailable"
    ELSE IF status # 404 THEN "http"
    ELSE "next"

\* SignalAborted of a fetch that was not given ctrl.signal
SignalAborted_NoSignal(c) == FALSE

\* ctrl.signal.aborted: the timer's callback has run ctrl.abort()
SignalAborted(c) == timer[c] = "fired"

\* finally { window.clearTimeout(to) }: no effect on a timer that has fired
ClearTimeout(t) == IF t = "armed" THEN "cleared" ELSE t

\* FetchFailure of a catch that reports the last diagnostic
FetchFailure_NotFound == NotFoundError("")

\* the error of the catch around fetch
FetchFailure == NetworkError

\* lastText = await r.text().catch(() => '')
ReadText(r, readOk) == IF readOk THEN r.body ELSE ""

\* NextLastText that keeps the first diagnostic it got
NextLastText_KeepFirst(old, text) == IF old # "" THEN old ELSE text

\* the value lastText holds after the body of one more response was read
NextLastText(old, text) == text

\* the request fetch is called with: `${base}${p}`, the form as body
Request(b, p, pl) == [base |-> b, path |-> p, file |-> pl, topk |-> TopK]

\* handlerSettles without the finally of lines 272-274 on the path of a
\* caught error: loading stays as it was
handlerSettles_NoFinally(c, out) ==
    LET ok == out.kind = "ok"
        hits == IF ok /\ out.data.hasResults THEN out.data.results ELSE <<>>
    IN  /\ results' = IF ok THEN hits ELSE results
        /\ resultsFrom' = IF ok THEN c ELSE resultsFrom
        /\ modalOpen' = IF ok /\ origin[c] = "confirm" THEN FALSE ELSE modalOpen
        /\ img' = IF ok /\ origin[c] = "confirm" THEN "none" ELSE img
        /\ visibleCount' = IF ok /\ origin[c] = "resubmit" THEN PageSize ELSE visibleCount
        /\ error' = IF ok THEN error ELSE out
        /\ loading' = IF ok THEN FALSE ELSE loading

\* the continuation of confirmAndSearch (lines 264-274) or
\* resubmitWithSameCrop (lines 285-293) once runSearchByUpload has settled
\* with `out`: the hits are stored, or the error is caught and stored
handlerSettles(c, out) ==
    LET ok == out.kind = "ok"
        hits == IF ok /\ out.data.hasResults THEN out.data.results ELSE <<>>
    IN  /\ results' = IF ok THEN hits ELSE results
        /\ resultsFrom' = IF ok THEN c ELSE resultsFrom
        /\ modalOpen' = IF ok /\ origin[c] = "confirm" THEN FALSE ELSE modalOpen
        /\ img' = IF ok /\ origin[c] = "confirm" THEN "none" ELSE img
        /\ visibleCount' = IF ok /\ origin[c] = "resubmit" THEN PageSize ELSE visibleCount
        /\ error' = IF ok THEN error ELSE out
        /\ loading' = FALSE

\* if (!base) (line 216): TRUE iff the call throws ConfigError
ConfigMissing == ~Truthy(ResolveBase(apiBase, backendUrl))

\* runSearchByUpload(pl) up to its first await (lines 211-227): the base is
\* resolved, and either the call throws ConfigError or the timer is armed
\* and the first candidate is fetched.
runSearchEnters(c, pl) ==
    /\ base' = [base EXCEPT ![c] = ResolveBase(apiBase, backendUrl)]
    /\ payload' = [payload EXCEPT ![c] = pl]
    /\ IF ConfigMissing
       THEN /\ outcome' = [outcome EXCEPT ![c] = ConfigError]
            /\ pc' = [pc EXCEPT ![c] = "done"]
            /\ UNCHANGED <<timer, idx, requested>>
       ELSE /\ timer' = [timer EXCEPT ![c] = "armed"]
            /\ idx' = [idx EXCEPT ![c] = 1]
            /\ requested' = [requested EXCEPT ![c] =
                   <<Request(ResolveBase(apiBase, backendUrl), paths[1], pl)>>]
            /\ pc' = [pc EXCEPT ![c] = "fetch"]
            /\ UNCHANGED outcome

\* runSearchByUpload throws `err` (lines 229, 233, 234, 236) or r.json()
\* rejects: the finally clears the timer and the handler's catch runs
runSearchFails(c, err) ==
    /\ outcome' = [outcome EXCEPT ![c] = err]
    /\ pc' = [pc EXCEPT ![c] = "done"]
    /\ timer' = [timer EXCEPT ![c] = ClearTimeout(timer[c])]
    /\ handlerSettles(c, err)

\* confirmAndSearch(), lines 242-254: up to the await of getCroppedBlob,
\* whose canvas.getContext('2d') gives a context (ctxOk) or null
confirmAndSearch(c, ctxOk) ==
    /\ file # 0
    /\ img # "none"
    /\ crop # 0
    /\ c = started + 1
    /\ started' = c
    /\ origin' = [origin EXCEPT ![c] = "confirm"]
    /\ closure' = [closure EXCEPT ![c] = [file |-> file, cropPreviewUrl |-> cropPreviewUrl]]
    /\ results' = <<>>
    /\ resultsFrom' = 0
    /\ visibleCount' = PageSize
    /\ cropPx' = c
    /\ IF ctxOk
       THEN /\ loading' = TRUE
            /\ error' = NoError
            /\ pc' = [pc EXCEPT ![c] = "blob"]
            /\ UNCHANGED <<outcome, cropBlob>>
       ELSE /\ loading' = FALSE
            /\ error' = CanvasError
            /\ pc' = [pc EXCEPT ![c] = "done"]
            /\ cropBlob' = [cropBlob EXCEPT ![c] = getCroppedBlob(FALSE, 0)]
            /\ outcome' = [outcome EXCEPT ![c] = CanvasError]
    /\ UNCHANGED <<apiBase, backendUrl, helperVars, file, originalUrl, crop, modalOpen, img,
                   cropPreviewUrl, lastCropBlob, liveUrls, nextUrl, payload, base,
                   timer, idx, requested, received, bodyRead, lastText>>

\* the button 'Zuschneiden & Suchen' of the modal, disabled={loading || !file}
confirmButton ==
    /\ ~loading
    /\ \E c \in CallIds, ctxOk \in BOOLEAN : confirmAndSearch(c, ctxOk)

\* the keydown listener registered while the modal is open: Enter
enterKey ==
    /\ modalOpen
    /\ \E c \in CallIds, ctxOk \in BOOLEAN : confirmAndSearch(c, ctxOk)

\* canvas.toBlob's callback (line 81) and confirmAndSearch, lines 255-263:
\* with a blob the preview is replaced and runSearchByUpload is entered;
\* with null, URL.createObjectURL(null) throws.  The revoke effect's cleanup
\* (lines 157-162) runs because cropPreviewUrl changed, and revokes both
\* URLs of the render before.
blobDelivered(c, blobOk) ==
    /\ pc[c] = "blob"
    /\ cropBlob' = [cropBlob EXCEPT ![c] = getCroppedBlob(TRUE, IF blobOk THEN c ELSE 0)]
    /\ IF blobOk
       THEN /\ cropPreviewUrl' = CropUrl(c)
            /\ lastCropBlob' = c
            /\ liveUrls' = (liveUrls \cup {CropUrl(c)})
                             \ {closure[c].cropPreviewUrl, originalUrl, cropPreviewUrl}
            /\ UNCHANGED nextUrl
            /\ runSearchEnters(c, [kind |-> "blob", id |-> c])
            /\ IF ConfigMissing
               THEN handlerSettles(c, ConfigError)
               ELSE UNCHANGED <<results, resultsFrom, modalOpen, img, visibleCount, error,
                                loading>>
       ELSE /\ outcome' = [outcome EXCEPT ![c] = BlobError]
            /\ pc' = [pc EXCEPT ![c] = "done"]
            /\ error' = BlobError
            /\ loading' = FALSE
            /\ UNCHANGED <<cropPreviewUrl, nextUrl, lastCropBlob, liveUrls, base, payload,
                           timer, idx, requested, results, resultsFrom, modalOpen, img,
                           visibleCount>>
    /\ UNCHANGED <<apiBase, backendUrl, helperVars, file, originalUrl, crop, cropPx, started, origin,
                   closure, received, bodyRead, lastText>>

\* resubmitWithSameCrop(), lines 277-284, from the button 'Erneut suchen'
\* of the result view, disabled={loading}
resubmitWithSameCrop(c) ==
    /\ originalUrl # 0
    /\ ~loading
    /\ file # 0
    /\ c = started + 1
    /\ started' = c
    /\ origin' = [origin EXCEPT ![c] = "resubmit"]
    /\ closure' = [closure EXCEPT ![c] = [file |-> file, cropPreviewUrl |-> cropPreviewUrl]]
    /\ runSearchEnters(c, IF lastCropBlob # 0 THEN [kind |-> "blob", id |-> lastCropBlob]
                                              ELSE [kind |-> "file", id |-> file])
    /\ IF ConfigMissing
       THEN /\ error' = ConfigError
            /\ loading' = FALSE
       ELSE /\ error' = NoError
            /\ loading' = TRUE
    /\ UNCHANGED <<apiBase, backendUrl, helperVars, file, originalUrl, crop, modalOpen, img, results,
                   resultsFrom, visibleCount, cropPreviewUrl, lastCropBlob, cropPx,
                   liveUrls, nextUrl, cropBlob, received, bodyRead, lastText>>

\* the callback of window.setTimeout(() => ctrl.abort(), 60_000) runs
timerFires(c) ==
    /\ timer[c] = "armed"
    /\ timer' = [timer EXCEPT ![c] = "fired"]
    /\ UNCHANGED <<apiBase, backendUrl, helperVars, pageVars, started, pc, origin, closure, cropBlob,
                   payload, base, idx, requested, received, bodyRead, lastText, outcome>>

\* await fetch(...) resolves with a response (line 227), which it cannot
\* once the signal is aborted; a 2xx returns r.json() (line 231) and the
\* finally clears the timer, any other status goes on to read the body
fetchResolves(c, status) ==
    /\ pc[c] = "fetch"
    /\ ~SignalAborted(c)
    /\ received' = [received EXCEPT ![c] = Append(@, Respond(paths[idx[c]], status))]
    /\ bodyRead' = [bodyRead EXCEPT ![c] = Append(@, "pending")]
    /\ IF Classify(status) = "return"
       THEN /\ pc' = [pc EXCEPT ![c] = "json"]
            /\ timer' = [timer EXCEPT ![c] = ClearTimeout(timer[c])]
       ELSE /\ pc' = [pc EXCEPT ![c] = "text"]
            /\ UNCHANGED timer
    /\ UNCHANGED <<apiBase, backendUrl, helperVars, pageVars, started, origin, closure, cropBlob,
                   payload, base, idx, requested, lastText, outcome>>

\* await fetch(...) rejects (lines 228-230): a transport failure, or the
\* abort of the signal
fetchRejects(c) ==
    /\ pc[c] = "fetch"
    /\ runSearchFails(c, FetchFailure)
    /\ UNCHANGED <<apiBase, backendUrl, helperVars, file, originalUrl, crop, cropPreviewUrl,
                   lastCropBlob, cropPx, liveUrls, nextUrl, started, origin, closure,
                   cropBlob, payload, base, idx, requested, received, bodyRead, lastText>>

\* await r.text().catch(() => '') settles (line 232), read or not (never
\* read once the signal is aborted), and lines 233-236 act on the status
textRead(c, readOk) ==
    LET r == received[c][idx[c]]
        lt == NextLastText(lastText[c], ReadText(r, readOk))
        how == Classify(r.status)
    IN  /\ pc[c] = "text"
        /\ SignalAborted(c) => ~readOk
        /\ lastText' = [lastText EXCEPT ![c] = lt]
        /\ bodyRead' = [bodyRead EXCEPT ![c][idx[c]] = IF readOk THEN "read" ELSE "failed"]
        /\ IF how = "next" /\ idx[c] < Len(paths)
           THEN /\ idx' = [idx EXCEPT ![c] = @ + 1]
                /\ requested' = [requested EXCEPT ![c] =
                       Append(@, Request(base[c], paths[idx[c] + 1], payload[c]))]
                /\ pc' = [pc EXCEPT ![c] = "fetch"]
                /\ UNCHANGED <<timer, outcome, results, resultsFrom, modalOpen, img,
                               visibleCount, error, loading>>
           ELSE /\ runSearchFails(c, CASE how = "unavailable" -> ServiceUnavailable
                                       [] how = "http" -> HttpError(r.status, r.statusText, lt)
                                       [] OTHER -> NotFoundError(lt))
                /\ UNCHANGED <<idx, requested>>
        /\ UNCHANGED <<apiBase, backendUrl, helperVars, file, originalUrl, crop, cropPreviewUrl,
                       lastCropBlob, cropPx, liveUrls, nextUrl, started, origin, closure,
                       cropBlob, payload, base, received>>

\* the promise of r.json() that runSearchByUpload returned settles: with
\* the parsed body, which the handler stores, or with a rejection (a body
\* that is not JSON, or that could not be read)
jsonRead(c, readOk) ==
    LET r == received[c][idx[c]]
        data == ParseJson(r.body)
    IN  /\ pc[c] = "json"
        /\ readOk => data.ok
        /\ bodyRead' = [bodyRead EXCEPT ![c][idx[c]] = IF readOk THEN "read" ELSE "failed"]
        /\ IF readOk
           THEN /\ outcome' = [outcome EXCEPT ![c] = Returned(data)]
                /\ pc' = [pc EXCEPT ![c] = "done"]
                /\ handlerSettles(c, Returned(data))
                /\ UNCHANGED timer
           ELSE runSearchFails(c, JsonError)
        /\ UNCHANGED <<apiBase, backendUrl, helperVars, file, originalUrl, crop, cropPreviewUrl,
                       lastCropBlob, cropPx, liveUrls, nextUrl, started, origin, closure,
                       cropBlob, payload, base, idx, requested, received, lastText>>

\* runSearchByUpload and its handler have ended: the locals of the call
\* (ctrl, to, lastText, r) are gone, and so is the record kept of them
callEnds(c) ==
    /\ pc[c] = "done"
    /\ pc' = [pc EXCEPT ![c] = "closed"]
    /\ origin' = [origin EXCEPT ![c] = "none"]
    /\ closure' = [closure EXCEPT ![c] = [file |-> 0, cropPreviewUrl |-> 0]]
    /\ cropBlob' = [cropBlob EXCEPT ![c] = Unsettled]
    /\ payload' = [payload EXCEPT ![c] = [kind |-> "none", id |-> 0]]
    /\ base' = [base EXCEPT ![c] = EnvUndefined]
    /\ timer' = [timer EXCEPT ![c] = "unset"]
    /\ idx' = [idx EXCEPT ![c] = 0]
    /\ requested' = [requested EXCEPT ![c] = <<>>]
    /\ received' = [received EXCEPT ![c] = <<>>]
    /\ bodyRead' = [bodyRead EXCEPT ![c] = <<>>]
    /\ lastText' = [lastText EXCEPT ![c] = ""]
    /\ outcome' = [outcome EXCEPT ![c] = Pending]
    /\ UNCHANGED <<apiBase, backendUrl, helperVars, pageVars, started>>

\* no call has just ended: the end of a call is part of the task in which
\* it settles, so no other task runs before callEnds
Settled == \A c \in CallIds : pc[c] # "done"

(* ----------------------------- specification -------------------------- *)

Next ==
    \/ Settled /\ handleFiles
    \/ Settled /\ imgOnLoad
    \/ Settled /\ imgOnError
    \/ Settled /\ changeCrop
    \/ Settled /\ closeModal
    \/ Settled /\ confirmButton
    \/ Settled /\ enterKey
    \/ Settled /\ \E c \in CallIds, blobOk \in BOOLEAN : blobDelivered(c, blobOk)
    \/ Settled /\ \E c \in CallIds : resubmitWithSameCrop(c)
    \/ Settled /\ \E c \in CallIds : timerFires(c)
    \/ Settled /\ \E c \in CallIds, status \in Statuses : fetchResolves(c, status)
    \/ Settled /\ \E c \in CallIds : fetchRejects(c)
    \/ Settled /\ \E c \in CallIds, readOk \in BOOLEAN : textRead(c, readOk)
    \/ Settled /\ \E c \in CallIds, readOk \in BOOLEAN : jsonRead(c, readOk)
    \/ \E c \in CallIds : callEnds(c)

Spec == Init /\ [][Next]_vars

(* --------------------- specification: a second image ------------------ *)

\* a build with NEXT_PUBLIC_API_BASE alone
InitReupload ==
    /\ apiBase = "http://api"
    /\ backendUrl = EnvUndefined
    /\ InitPage
    /\ InitHelpers

\* the button 'Bildsuche' of the navbar and its file input (lines 379-391)
\* stay enabled whatever the page is doing: the user selects one more image
NextReupload ==
    \/ Next
    \/ Settled /\ selectFile(MaxFiles + 1)

SpecReupload == InitReupload /\ [][NextReupload]_vars

(* ---------------------- specification: crop geometry ------------------ *)

\* const px = toPixelCrop(crop, imgEl), line 251
resolveCrop ==
    /\ px = Nothing
    /\ px' = toPixelCrop(selection, element)
    /\ UNCHANGED <<apiBase, backendUrl, pageVars, callVars, selection, element, pct,
                   listVars>>

\* setCrop(pixelToPercentCropWithSize(cropPx, img.naturalWidth,
\* img.naturalHeight)), line 753: the rectangle resolved before is shown
\* again as a selection on the same image
restoreCrop ==
    /\ px # Nothing
    /\ pct = Nothing
    /\ pct' = pixelToPercentCropWithSize(px, element.naturalWidth, element.naturalHeight)
    /\ UNCHANGED <<apiBase, backendUrl, pageVars, callVars, selection, element, px,
                   listVars>>

InitCrop ==
    /\ apiBase = EnvUndefined
    /\ backendUrl = EnvUndefined
    /\ InitPage
    /\ selection \in Selections
    /\ element \in Elements
    /\ px = Nothing
    /\ pct = Nothing
    /\ InitLists

NextCrop ==
    \/ resolveCrop
    \/ restoreCrop

SpecCrop == InitCrop /\ [][NextCrop]_vars

(* --------------------- specification: result pipeline ----------------- *)

\* const visibleResults, line 349
visibleResults == Slice(filteredResults, 0, visibleCount)

\* const canLoadMore, line 350
canLoadMore == visibleCount < Len(filteredResults)

\* the page without visibleCount and the calls, which the controls of the
\* result list leave alone
restVars == <<apiBase, backendUrl, cropVars, callVars, file, originalUrl, crop, modalOpen,
              img, loading, error, results, resultsFrom, cropPreviewUrl, lastCropBlob,
              cropPx, liveUrls, nextUrl>>

\* setResults(hits); setVisibleCount(12), lines 248-249, 265 and 285-286:
\* a response fills the empty results array, or a new search empties it
setResults(list) ==
    /\ list # resultList
    /\ list = <<>> \/ resultList = <<>>
    /\ resultList' = list
    /\ visibleCount' = PageSize
    /\ useMemos(list, sortBy, labelFilter, priceMin, priceMax, merchantSearch)
    /\ UNCHANGED <<restVars, sortBy, labelFilter, priceMin, priceMax, merchantSearch>>

\* setSortBy(e.target.value as SortKey), line 609
setSortBy(key) ==
    /\ key # sortBy
    /\ sortBy' = key
    /\ useMemos(resultList, key, labelFilter, priceMin, priceMax, merchantSearch)
    /\ UNCHANGED <<restVars, visibleCount, resultList, labelFilter, priceMin, priceMax,
                   merchantSearch>>

\* setLabelFilter((prev) => ({ ...prev, [k]: e.target.checked })), line 496:
\* the checkbox of bucket k changes
toggleLabel(k) ==
    LET flags == [labelFilter EXCEPT ![k] = ~labelFilter[k]]
    IN  /\ labelFilter' = flags
        /\ useMemos(resultList, sortBy, flags, priceMin, priceMax, merchantSearch)
        /\ UNCHANGED <<restVars, visibleCount, resultList, sortBy, priceMin, priceMax,
                       merchantSearch>>

\* setPriceMin(e.target.value), line 512
setPriceMin(text) ==
    /\ text # priceMin
    /\ priceMin' = text
    /\ useMemos(resultList, sortBy, labelFilter, text, priceMax, merchantSearch)
    /\ UNCHANGED <<restVars, visibleCount, resultList, sortBy, labelFilter, priceMax,
                   merchantSearch>>

\* setPriceMax(e.target.value), line 521
setPriceMax(text) ==
    /\ text # priceMax
    /\ priceMax' = text
    /\ useMemos(resultList, sortBy, labelFilter, priceMin, text, merchantSearch)
    /\ UNCHANGED <<restVars, visibleCount, resultList, sortBy, labelFilter, priceMin,
                   merchantSearch>>

\* setMerchantSearch(e.target.value), line 533
setMerchantSearch(text) ==
    /\ text # merchantSearch
    /\ merchantSearch' = text
    /\ useMemos(resultList, sortBy, labelFilter, priceMin, priceMax, text)
    /\ UNCHANGED <<restVars, visibleCount, resultList, sortBy, labelFilter, priceMin,
                   priceMax>>

\* the button 'Filter zuruecksetzen', line 540
resetFilters ==
    /\ <<labelFilter, priceMin, priceMax, merchantSearch>> # <<AllLabels, <<>>, <<>>, <<>>>>
    /\ labelFilter' = AllLabels
    /\ priceMin' = <<>>
    /\ priceMax' = <<>>
    /\ merchantSearch' = <<>>
    /\ useMemos(resultList, sortBy, AllLabels, <<>>, <<>>, <<>>)
    /\ UNCHANGED <<restVars, visibleCount, resultList, sortBy>>

\* the button 'Mehr laden', lines 692-699, rendered while canLoadMore
loadMore ==
    /\ canLoadMore
    /\ visibleCount' = visibleCount + LoadStep
    /\ UNCHANGED <<restVars, listVars>>

\* the arrays setResults can be given: one of `lists` while the results are
\* empty, the empty one after
Responses(lists) == IF resultList = <<>> THEN lists ELSE {<<>>}

InitResults ==
    /\ apiBase = EnvUndefined
    /\ backendUrl = EnvUndefined
    /\ InitPage
    /\ InitHelpers

\* responses that differ in the fields of the dedupe key
NextResults == \E list \in Responses(HitLists) : setResults(list)

SpecResults == InitResults /\ [][NextResults]_vars

(* -------------------------- specification: sort ----------------------- *)

\* responses that differ in price and score, under every sort key
NextSort ==
    \/ \E list \in Responses(SortLists) : setResults(list)
    \/ \E key \in SortKeys : setSortBy(key)

SpecSort == InitResults /\ [][NextSort]_vars

(* ------------------------- specification: filters --------------------- *)

\* responses that differ in label, price and merchant, under the settings
\* of the filters
NextFilter ==
    \/ \E list \in Responses(FilterLists) : setResults(list)
    \/ \E k \in Buckets : toggleLabel(k)
    \/ \E text \in PriceTexts : setPriceMin(text)
    \/ \E text \in PriceTexts : setPriceMax(text)
    \/ \E text \in MerchantTexts : setMerchantSearch(text)
    \/ resetFilters

SpecFilter == InitResults /\ [][NextFilter]_vars

(* -------------------------- specification: pages ---------------------- *)

\* responses of up to MaxLong hits, shown page by page while the label
\* filter changes
NextPages ==
    \/ \E list \in Responses(LongLists) : setResults(list)
    \/ \E k \in Buckets : toggleLabel(k)
    \/ loadMore

SpecPages == InitResults /\ [][NextPages]_vars

(* -------------------------------- claims ------------------------------ *)

\* call c has entered runSearchByUpload
Entered(c) == payload[c].kind # "none"

\* call c has ended and its record is still there
Ended(c) == pc[c] = "done"

\* the i-th response call c received
Answer(c, i) == received[c][i]

\* the answers call c has received, by their place in the candidate list
Answers(c) == 1..Len(received[c])

\* a status in the range 200..299
TwoXX(status) == status \div 100 = 2

\* the text r.text() gave for the i-th response: '' when it could not be read
TextAsRead(c, i) == IF bodyRead[c][i] = "read" THEN Answer(c, i).body ELSE ""

\* C1: when a candidate answers with a 2xx status, no later candidate is
\* requested during the call, and the call's result is what r.json() gives
\* for that response: the parsed JSON body once the body is read, and, for
\* a body that cannot be read as JSON, the rejection of r.json().
C1_OkReturnsParsedBody ==
    \A c \in CallIds : \A i \in Answers(c) :
        TwoXX(Answer(c, i).status) =>
            /\ Len(requested[c]) = i
            /\ pc[c] \in {"json", "done"}
            /\ Ended(c) /\ bodyRead[c][i] = "read" =>
                   /\ ParseJson(Answer(c, i).body).ok
                   /\ outcome[c] = Returned(ParseJson(Answer(c, i).body))
            /\ Ended(c) /\ bodyRead[c][i] # "read" => outcome[c] = JsonError

C1_Witness ==
    \E c \in CallIds :
        /\ Ended(c)
        /\ Len(received[c]) = 1
        /\ Answer(c, 1).status = 201
        /\ outcome[c].kind = "ok"

\* C2: when a candidate answers 503, the call fails with ServiceUnavailable
\* and no later candidate is requested.
C2_UnavailableStops ==
    \A c \in CallIds : \A i \in Answers(c) :
        Answer(c, i).status = 503 =>
            /\ Len(requested[c]) = i
            /\ pc[c] \in {"text", "done"}
            /\ Ended(c) => outcome[c] = ServiceUnavailable

C2_Witness ==
    \E c \in CallIds :
        /\ Ended(c)
        /\ Len(received[c]) = 1
        /\ Answer(c, 1).status = 503
        /\ requested[c] = <<Request(base[c], "/search/by-upload", payload[c])>>

\* C3: the candidates are requested in the order /search/by-upload,
\* /search/image; the second is requested iff the first answered 404 (and
\* the reading of its body has settled); when the first answered 404 and the
\* second a 2xx whose body is read, the call's result is the second
\* candidate's parsed body.
C3_FallbackOrder ==
    \A c \in CallIds :
        /\ Len(requested[c]) <= 2
        /\ Len(requested[c]) >= 1 =>
               requested[c][1] = Request(base[c], "/search/by-upload", payload[c])
        /\ Len(requested[c]) >= 2 =>
               requested[c][2] = Request(base[c], "/search/image", payload[c])
        /\ Len(requested[c]) >= 2 <=>
               /\ Len(received[c]) >= 1
               /\ Answer(c, 1).status = 404
               /\ bodyRead[c][1] # "pending"
        /\ ( /\ Ended(c)
             /\ Len(received[c]) = 2
             /\ Answer(c, 1).status = 404
             /\ TwoXX(Answer(c, 2).status)
             /\ bodyRead[c][2] = "read" )
           => outcome[c] = Returned(ParseJson(BodyText("/search/image", Answer(c, 2).status)))

C3_Witness ==
    \E c \in CallIds :
        /\ Ended(c)
        /\ Len(received[c]) = 2
        /\ Answer(c, 1).status = 404
        /\ Answer(c, 2).status = 200
        /\ outcome[c].kind = "ok"
        /\ outcome[c].data.results = <<9>>
        /\ results = <<9>>

\* C4: when a candidate answers with a status that is not 2xx, not 404 and
\* not 503, the call fails with the HttpError of that response's status,
\* reason text and body (the body as r.text() read it), and no later
\* candidate is requested.
C4_HttpErrorStops ==
    \A c \in CallIds : \A i \in Answers(c) :
        LET r == Answer(c, i)
        IN  ~TwoXX(r.status) /\ r.status \notin {404, 503} =>
                /\ Len(requested[c]) = i
                /\ pc[c] \in {"text", "done"}
                /\ Ended(c) =>
                       outcome[c] = [kind |-> "HttpError", status |-> r.status,
                                     statusText |-> StatusText(r.status),
                                     body |-> TextAsRead(c, i)]

C4_Witness ==
    \E c \in CallIds :
        /\ Ended(c)
        /\ Len(received[c]) = 2
        /\ Answer(c, 2).status = 500
        /\ bodyRead[c][2] = "read"
        /\ outcome[c].kind = "HttpError"
        /\ outcome[c].body = "image crashed"

\* C5: when every candidate answers 404, the call fails with NotFoundError
\* whose diagnostic is the body of the last candidate tried (as r.text()
\* read it), not the first one's.
C5_AllNotFound ==
    \A c \in CallIds :
        ( /\ Ended(c)
          /\ Len(received[c]) = Len(paths)
          /\ \A i \in Answers(c) : Answer(c, i).status = 404 )
        => /\ outcome[c] = [kind |-> "NotFoundError",
                            body |-> TextAsRead(c, Len(paths))]
           /\ outcome[c].body # Answer(c, 1).body

C5_Witness ==
    \E c \in CallIds :
        /\ Ended(c)
        /\ Len(received[c]) = 2
        /\ \A i \in Answers(c) : Answer(c, i).status = 404 /\ bodyRead[c][i] = "read"
        /\ outcome[c] = [kind |-> "NotFoundError", body |-> "Cannot POST /search/image"]

\* C6: when fetch rejects at a candidate (the first, or the second after
\* the first answered 404), the call fails with the NetworkError message,
\* never with NotFoundError or HttpError, and no further candidate is
\* requested.  A call that ended with more requests than answers is one
\* whose last fetch rejected.
C6_TransportFailure ==
    \A c \in CallIds :
        Ended(c) /\ Len(requested[c]) > Len(received[c]) =>
            /\ outcome[c] = NetworkError
            /\ error = NetworkError
            /\ Len(requested[c]) = Len(received[c]) + 1

C6_Witness ==
    \E c \in CallIds :
        /\ Ended(c)
        /\ Len(requested[c]) = 2
        /\ Len(received[c]) = 1
        /\ timer[c] = "cleared"
        /\ outcome[c] = NetworkError

\* C7: when neither NEXT_PUBLIC_API_BASE nor NEXT_PUBLIC_BACKEND_URL is
\* present, runSearchByUpload fails with ConfigError and no request is sent.
C7_ConfigErrorBeforeRequest ==
    (apiBase = EnvUndefined /\ backendUrl = EnvUndefined) =>
        \A c \in CallIds :
            /\ requested[c] = <<>>
            /\ timer[c] = "unset"
            /\ Entered(c) => Ended(c) /\ outcome[c] = ConfigError /\ error = ConfigError

C7_Witness ==
    /\ apiBase = EnvUndefined
    /\ backendUrl = EnvUndefined
    /\ \E c \in CallIds : Entered(c) /\ outcome[c] = ConfigError

\* the first non-empty value among a and b
FirstNonEmpty(a, b) == IF a # EnvUndefined /\ a # "" THEN a ELSE b

\* C8: whenever at least one of the two variables holds a non-empty value,
\* runSearchByUpload uses the first non-empty one as the base and does not
\* fail with ConfigError, also when NEXT_PUBLIC_API_BASE is the empty string.
C8_FirstNonEmptyBase ==
    (Truthy(apiBase) \/ Truthy(backendUrl)) =>
        \A c \in CallIds :
            Entered(c) =>
                /\ base[c] = FirstNonEmpty(apiBase, backendUrl)
                /\ outcome[c] # ConfigError

\* C9: the timer of a call is armed before the first request and stays
\* armed (or has fired) until the call has delivered its outcome: while a
\* fetch or the reading of a response body is pending, the timeout is there
\* to abort it.
C9_TimerCoversCall ==
    \A c \in CallIds :
        pc[c] \in {"fetch", "text", "json"} => timer[c] \in {"armed", "fired"}

\* C10: once the timer of a call has fired, no response of that call is
\* stored in results: no response is received any more, the call does not
\* return a result, and it ends in an error.
C10_NoResultAfterAbort ==
    \A c \in CallIds :
        timer[c] = "fired" =>
            /\ resultsFrom # c
            /\ pc[c] \in {"fetch", "text", "done"}
            /\ pc[c] = "fetch" => Len(received[c]) < Len(requested[c])
            /\ Ended(c) => outcome[c].kind \notin {"ok", "pending"} /\ error = outcome[c]

C10_Witness ==
    \E c \in CallIds :
        /\ timer[c] = "fired"
        /\ Ended(c)
        /\ Len(requested[c]) = 2
        /\ outcome[c] = NetworkError

\* call c is on its round trip to the search service
InFlight(c) == pc[c] \in {"fetch", "text", "json"}

\* C11: for every sequence of user events, no search round trip is started
\* while an earlier one is still in flight: at most one call is between its
\* first request and its outcome.
C11_NoOverlappingSearches ==
    Cardinality({c \in CallIds : InFlight(c)}) <= 1

\* the object URLs of the displayable source that are created and not revoked
LiveSourceUrls == {u \in liveUrls : u > 0}

\* the object URLs of crop previews that are created and not revoked
LivePreviewUrls == {u \in liveUrls : u < 0}

\* the URL a state slot holds, as a set: empty for null
Held(slot) == IF slot = 0 THEN {} ELSE {slot}

\* C12: in every reachable state, for each role (displayable source, crop
\* preview), the object URLs created and not yet revoked are exactly the URL
\* held in the role's state slot: the held URL is not revoked, and every
\* superseded URL is.
C12_OneLiveUrlPerRole ==
    /\ LiveSourceUrls = Held(originalUrl)
    /\ LivePreviewUrls = Held(cropPreviewUrl)

\* C13: cropPx, cropPreviewUrl and lastCropBlob are all unset or all come
\* from the same confirmed crop, and a confirmation whose rasterization or
\* encoding fails leaves the three as they were.  Stated for the states in
\* which no confirmation is waiting for its encoder, so that only a finished
\* confirmation can break it.
C13_CropReplacedAtomically ==
    (\A c \in CallIds : pc[c] # "blob") =>
        /\ cropPx = lastCropBlob
        /\ cropPreviewUrl = IF lastCropBlob = 0 THEN 0 ELSE CropUrl(lastCropBlob)

\* call c has ended with an error
Failed(c) == Ended(c) /\ outcome[c].kind # "ok"

\* C14: when a search started by confirmAndSearch or resubmitWithSameCrop
\* fails, with whatever error, the error is caught and stored in the error
\* state, loading is false again, and the page still lets the user search:
\* the file and its URL slot are kept, so 'Erneut suchen' is enabled, and a
\* modal left open by a failed confirmation keeps its image and crop.
C14_ErrorsCaughtAndStored ==
    \A c \in CallIds :
        Failed(c) =>
            /\ error = outcome[c]
            /\ ~loading
            /\ file # 0 /\ originalUrl # 0
            /\ modalOpen => img # "none"

C14_Witness ==
    /\ pc[1] = "closed"
    /\ Failed(2)
    /\ origin[2] = "resubmit"
    /\ outcome[2].kind = "NotFoundError"
    /\ error = outcome[2]
    /\ ~loading

\* C15: getCroppedBlob fails with an error when no 2D context is acquired
\* and when the encoder delivers null; its promise is never fulfilled with
\* a null artifact.
C15_NoNullArtifact ==
    \A c \in CallIds :
        /\ cropBlob[c].settled = "fulfilled" => cropBlob[c].value # 0
        /\ cropBlob[c].settled = "rejected" => cropBlob[c].error = CanvasError

\* C16: for a selection in either unit and positive natural dimensions
\* (rendered dimensions positive, or 0 before layout), toPixelCrop returns a
\* rectangle with x >= 0, y >= 0, width >= 1 and height >= 1.
C16_PixelCropInvariant ==
    px # Nothing =>
        /\ px.x >= 0
        /\ px.y >= 0
        /\ px.width >= 1
        /\ px.height >= 1

C16_Witness ==
    /\ px # Nothing
    /\ selection.unit = "px"
    /\ element.width > 0
    /\ selection.x < 0
    /\ selection.width = 0
    /\ px.x = 0
    /\ px.width = 1

\* a percentage selection that lies inside the image
InsideImage(s) ==
    /\ s.unit = "%"
    /\ s.x >= 0 /\ s.y >= 0 /\ s.width >= 0 /\ s.height >= 0
    /\ s.x + s.width <= 100
    /\ s.y + s.height <= 100

\* C17: for a percentage selection inside the image and positive natural
\* dimensions W x H, the rectangle toPixelCrop returns has x + width <= W
\* and y + height <= H.
C17_RoundingStaysInBounds ==
    (px # Nothing /\ InsideImage(selection)) =>
        /\ px.x + px.width <= element.naturalWidth
        /\ px.y + px.height <= element.naturalHeight

\* a percentage selection with every coordinate in 0..100
InRange(s) ==
    /\ s.unit = "%"
    /\ \A v \in {s.x, s.y, s.width, s.height} : v >= 0 /\ v <= 100

\* the absolute value of a
Abs(a) == IF a >= 0 THEN a ELSE 0 - a

\* the quotient q = <<n, d>>, a percentage, differs from the percentage v by
\* at most half a pixel of `natural` pixels: |n / d - v| <= 50 / natural
WithinHalfPixel(q, v, natural) ==
    Abs(q[1] * natural - v * q[2] * natural) <= 50 * q[2]

\* the selection pct is the selection s within half a pixel per coordinate
RecoveredFrom(s) ==
    /\ pct.unit = "%"
    /\ WithinHalfPixel(pct.x, s.x, element.naturalWidth)
    /\ WithinHalfPixel(pct.width, s.width, element.naturalWidth)
    /\ WithinHalfPixel(pct.y, s.y, element.naturalHeight)
    /\ WithinHalfPixel(pct.height, s.height, element.naturalHeight)

\* C18, as the claim states it: for every percentage selection s with
\* coordinates in 0..100 and positive natural dimensions W x H,
\* pixelToPercentCropWithSize(toPixelCrop(s), W, H) is s within 50/W for x
\* and width and within 50/H for y and height.
C18_RoundTrip ==
    (pct # Nothing /\ InRange(selection)) => RecoveredFrom(selection)

\* the selection is at least half a pixel wide and high on the natural image
AtLeastHalfPixel(s) ==
    /\ s.width * element.naturalWidth >= 50
    /\ s.height * element.naturalHeight >= 50

\* C18, amended: the round trip recovers s within half a pixel for every
\* percentage selection with coordinates in 0..100 whose width and height
\* are at least half a pixel of the natural image (width/100 * W >= 1/2 and
\* height/100 * H >= 1/2); a smaller width or height resolves to 1 pixel.
C18_RoundTripAboveHalfPixel ==
    (pct # Nothing /\ InRange(selection) /\ AtLeastHalfPixel(selection))
        => RecoveredFrom(selection)

C18_Witness ==
    /\ pct # Nothing
    /\ InRange(selection)
    /\ AtLeastHalfPixel(selection)
    /\ pct.x[1] # selection.x * pct.x[2]
    /\ pct.height[1] # selection.height * pct.height[2]

\* k is round(n / d), d > 0: the integer nearest to n / d, a tie going up
IsRound(k, n, d) == 2 * k * d - d <= 2 * n /\ 2 * n < 2 * k * d + d

\* k is round(v / 100 * natural), or the least value `lo` the rectangle may
\* have there when the rounded value is below it
Resolves(k, lo, v, natural) ==
    \/ k >= lo /\ IsRound(k, v * natural, 100)
    \/ k = lo /\ 2 * v * natural < (2 * lo - 1) * 100

\* the selection of the scenario
ScenarioSelection == [unit |-> "%", x |-> 12, y |-> 12, width |-> 76, height |-> 76]

\* C19: for a percentage selection, toPixelCrop resolves each coordinate as
\* round(percent / 100 * natural dimension) (x and y not below 0, width and
\* height not below 1), whatever the rendered size; the scenario's selection
\* on a 1000 x 800 image resolves to x = 120, y = 96, width = 760,
\* height = 608 for every rendered size.
C19_PercentScalesByNatural ==
    (px # Nothing /\ selection.unit = "%") =>
        /\ px.unit = "px"
        /\ Resolves(px.x, 0, selection.x, element.naturalWidth)
        /\ Resolves(px.y, 0, selection.y, element.naturalHeight)
        /\ Resolves(px.width, 1, selection.width, element.naturalWidth)
        /\ Resolves(px.height, 1, selection.height, element.naturalHeight)
        /\ ( /\ selection = ScenarioSelection
             /\ element.naturalWidth = 1000
             /\ element.naturalHeight = 800 )
           => px = [unit |-> "px", x |-> 120, y |-> 96, width |-> 760, height |-> 608]

C19_Witness ==
    /\ selection = ScenarioSelection
    /\ element = [naturalWidth |-> 1000, naturalHeight |-> 800,
                  width |-> 500, height |-> 400]
    /\ px = [unit |-> "px", x |-> 120, y |-> 96, width |-> 760, height |-> 608]

\* the composite key of a hit: its identifier, its deeplink or the empty
\* string, its image URL or the empty string
CompositeKey(h) == <<h.product_id, OrEmpty(h.deeplink), OrEmpty(h.image_url)>>

\* the places of `list` whose hit has a composite key no earlier hit has
FirstPlaces(list) ==
    {i \in 1..Len(list) :
        \A j \in 1..(i - 1) : CompositeKey(list[j]) # CompositeKey(list[i])}

\* the hits of `list` at the places of `keep`, in the order of the list
RECURSIVE Pick(_, _, _)
Pick(list, keep, i) ==
    IF i > Len(list) THEN <<>>
    ELSE (IF i \in keep THEN <<list[i]>> ELSE <<>>) \o Pick(list, keep, i + 1)

\* C20: dedupedResults is, in input order, exactly the first occurrence of
\* each distinct composite key (product_id, deeplink or empty, image_url or
\* empty): a hit is dropped only if an earlier hit has all three components
\* equal, and two hits that differ in a component are both kept.
C20_DedupeByCompositeKey ==
    dedupedResults = Pick(resultList, FirstPlaces(resultList), 1)

(* ---- result pipeline: sort ---- *)

\* the hit has a price
Priced(h) == h.price # NoNumber

\* C21: under priceAsc and priceDesc every hit of sortedResults without a
\* price comes after every hit with a price.
C21_MissingPriceLast ==
    sortBy \in {"priceAsc", "priceDesc"} =>
        \A i, j \in 1..Len(sortedResults) :
            (Priced(sortedResults[i]) /\ ~Priced(sortedResults[j])) => i < j

\* a response that began with a hit without a price, followed by hits with
\* one, has been sorted by descending price
C21_Witness ==
    /\ sortBy = "priceDesc"
    /\ Len(sortedResults) = MaxSorted
    /\ ~Priced(dedupedResults[1])
    /\ Priced(dedupedResults[2])
    /\ Priced(sortedResults[1])
    /\ ~Priced(sortedResults[MaxSorted])

\* the place of a hit in the order of a sort key: hits are ordered by
\* ascending rank, first by its first component, then by its second
Rank(h, key) ==
    CASE key = "priceAsc" -> IF Priced(h) THEN <<0, h.price.value>> ELSE <<1, 0>>
      [] key = "priceDesc" -> IF Priced(h) THEN <<0, 0 - h.price.value>> ELSE <<1, 0>>
      [] key = "scoreDesc" -> <<0, IF h.score = NoNumber THEN 0 ELSE 0 - h.score.value>>
      [] OTHER -> <<0, IF h.score = NoNumber THEN 0 ELSE h.score.value>>

\* rank r is not after rank s
NotAfter(r, s) == r[1] < s[1] \/ (r[1] = s[1] /\ r[2] <= s[2])

\* the place of a hit in dedupedResults
PlaceOf(h) == CHOOSE k \in 1..Len(dedupedResults) : dedupedResults[k] = h

\* C22: for every sort key but relevance, sortedResults is a permutation of
\* dedupedResults in the order of the key (a missing score counts as 0) in
\* which hits of equal key keep their order in dedupedResults; under
\* relevance sortedResults is dedupedResults.
C22_StableSort ==
    /\ sortBy = "relevance" => sortedResults = dedupedResults
    /\ Len(sortedResults) = Len(dedupedResults)
    /\ \A k \in 1..Len(dedupedResults) :
           \E i \in 1..Len(sortedResults) : sortedResults[i] = dedupedResults[k]
    /\ sortBy # "relevance" =>
           \A i, j \in 1..Len(sortedResults) :
               i < j =>
                   LET r == Rank(sortedResults[i], sortBy)
                       s == Rank(sortedResults[j], sortBy)
                   IN  /\ NotAfter(r, s)
                       /\ r = s => PlaceOf(sortedResults[i]) < PlaceOf(sortedResults[j])

\* a hit without a score, a hit of score 1 and a hit of score 0 have been
\* sorted by descending score: the second came first, the other two are
\* equal
C22_Witness ==
    /\ sortBy = "scoreDesc"
    /\ Len(dedupedResults) = 3
    /\ dedupedResults[1].score = NoNumber
    /\ dedupedResults[2].score = Number(1)
    /\ dedupedResults[3].score = Number(0)
    /\ sortedResults = <<dedupedResults[2], dedupedResults[1], dedupedResults[3]>>

(* ---- result pipeline: filters ---- *)

\* the bucket a label is counted in
BucketOf(label) == IF label \in {"Exact", "Sehr aehnlich"} THEN label ELSE "Alternative"

\* the amount the text of a price input stands for
Amount(text) == CHOOSE n \in 0..99 : NumberToString(n) = text

\* the places of text that hold something other than a space
Inked(text) == {i \in 1..Len(text) : text[i] # " "}

\* text from its first to its last character that is not a space
Core(text) ==
    IF Inked(text) = {} THEN <<>>
    ELSE SubSeq(text, CHOOSE i \in Inked(text) : \A k \in Inked(text) : i <= k,
                      CHOOSE j \in Inked(text) : \A k \in Inked(text) : k <= j)

\* the same character, or the same letter in different case
SameLetter(c, d) == c = d \/ {c, d} \in {{"a", "A"}, {"b", "B"}}

\* q occurs in text when the case of letters is ignored
ContainsIgnoringCase(text, q) ==
    \E start \in 1..(Len(text) - Len(q) + 1) :
        \A k \in 1..Len(q) : SameLetter(text[start + k - 1], q[k])

\* the four conditions of the filter on hit r, for the settings of the state
Passes(r) ==
    /\ labelFilter[BucketOf(r.label)]
    /\ (priceMin # <<>> /\ Priced(r)) => r.price.value >= Amount(priceMin)
    /\ (priceMax # <<>> /\ Priced(r)) => r.price.value <= Amount(priceMax)
    /\ Core(merchantSearch) # <<>> =>
           ContainsIgnoringCase(IF r.merchant = NullString THEN <<>> ELSE r.merchant.text,
                                Core(merchantSearch))

\* C23: filteredResults is, in the order of sortedResults, exactly the hits
\* for which all four conditions hold: the flag of the hit's bucket is set
\* (a label other than 'Exact' and 'Sehr aehnlich' counts as Alternative),
\* its price is at least min and at most max where these are set (a missing
\* price passes both), and its merchant (empty when missing) contains the
\* trimmed query, if there is one, whatever the case of the letters.
C23_FilterConditions ==
    filteredResults =
        Pick(sortedResults, {i \in 1..Len(sortedResults) : Passes(sortedResults[i])}, 1)

\* with both price bounds at 10, the query ' Ab' and the bucket Exact off, a
\* hit without a price was dropped for its merchant 'b' alone, and a hit of
\* the unrecognized label 'Neu', price 10 and merchant 'aB' was kept
C23_Witness ==
    /\ priceMin = <<"1", "0">>
    /\ priceMax = <<"1", "0">>
    /\ merchantSearch = <<" ", "A", "b">>
    /\ ~labelFilter["Exact"]
    /\ labelFilter["Alternative"]
    /\ sortedResults = <<HitAt(1, Number(1), NoNumber, "Neu", Str(<<"b">>)),
                         HitAt(2, Number(1), Number(10), "Neu", Str(<<"a", "B">>))>>
    /\ filteredResults = <<sortedResults[2]>>

\* C26: with all three bucket flags set, no price bound and a merchant query
\* that is empty or spaces only, filteredResults is sortedResults.
C26_DefaultFilterKeepsAll ==
    (/\ labelFilter = AllLabels
     /\ priceMin = <<>>
     /\ priceMax = <<>>
     /\ \A i \in 1..Len(merchantSearch) : merchantSearch[i] = " ")
        => filteredResults = sortedResults

\* under a query of one space and no other filter, a hit without price and
\* merchant and a hit of an unrecognized label are both shown
C26_Witness ==
    /\ labelFilter = AllLabels
    /\ priceMin = <<>>
    /\ priceMax = <<>>
    /\ merchantSearch = <<" ">>
    /\ Len(sortedResults) = 2
    /\ ~Priced(sortedResults[1])
    /\ sortedResults[1].merchant = NullString
    /\ sortedResults[2].label = "Neu"
    /\ filteredResults = sortedResults

(* ---- result pipeline: pages ---- *)

\* the smaller of two numbers
Min(a, b) == IF a < b THEN a ELSE b

\* C24: visibleCount is 12 plus a multiple of 12; the hits shown are the
\* first min(visibleCount, length of filteredResults) hits of
\* filteredResults, never more than it holds; and canLoadMore is false
\* exactly when visibleCount is at least the length of filteredResults.
C24_Pagination ==
    /\ visibleCount >= 12
    /\ (visibleCount - 12) % 12 = 0
    /\ Len(visibleResults) = Min(visibleCount, Len(filteredResults))
    /\ Len(visibleResults) <= Len(filteredResults)
    /\ \A i \in 1..Len(visibleResults) : visibleResults[i] = filteredResults[i]
    /\ ~canLoadMore <=> visibleCount >= Len(filteredResults)

\* 'Mehr laden' was clicked twice on a response of more than 24 hits, and
\* then a filter left fewer hits than two pages hold
C24_Witness ==
    /\ visibleCount = 36
    /\ Len(sortedResults) > 24
    /\ Len(filteredResults) < 24
    /\ Len(filteredResults) > 0
    /\ visibleResults = filteredResults
    /\ ~canLoadMore

\* C25: the dedupe of dedupedResults is dedupedResults.
C25_DedupeIdempotent == Dedupe(dedupedResults) = dedupedResults

\* a response in which the third hit repeated the key of the first was
\* deduped to its first two hits
C25_Witness ==
    /\ Len(resultList) = 3
    /\ HitKey(resultList[3]) = HitKey(resultList[1])
    /\ dedupedResults = <<resultList[1], resultList[2]>>

(* ---- results and the selected image ---- *)

\* C27: results belongs to the selected image: when a call has stored hits
\* into results, the file the call was started for is the file selected
\* now.
C27_ResultsOfCurrentImage ==
    \A c \in CallIds :
        (Ended(c) /\ resultsFrom = c /\ results # <<>>) => closure[c].file = file

====
